---- MODULE Spec2Model ----
(***************************************************************************)
(* The GPT-Vencord plugin: the /respond command and the per-message "AI    *)
(* Response" button, both of which collect the recent messages of a        *)
(* channel, POST them to the OpenRouter completions endpoint and hand the   *)
(* generated text back to the invoking user.                               *)
(*                                                                         *)
(* Scheduling.  The plugin runs on the JavaScript event loop.  A handler    *)
(* runs to completion up to its next await on real I/O; an await on an     *)
(* async function that itself awaits nothing (getChatContext,              *)
(* formatDebugInfo) resumes in a microtask, before any other UI event or   *)
(* network completion is dispatched.  The I/O awaits of the source are     *)
(* fetch(), response.text() and response.json(): these are the points at   *)
(* which another invocation or a settings change can interleave, and they  *)
(* are the boundaries of the actions below.                                *)
(*                                                                         *)
(* Every call into the host or the runtime (MessageStore.getMessages,      *)
(* fetch, showToast, sendBotMessage, insertTextIntoChatInputBox,           *)
(* console.error, console.log) is recorded, in order, in the trace of the  *)
(* invocation that made it.                                                *)
(***************************************************************************)
EXTENDS Integers, Sequences, FiniteSets, TLC

VARIABLES settings, MessageStore, inv, pure

vars == <<settings, MessageStore, inv, pure>>

----------------------------------------------------------------------------
(* Bounds of the model *)

\* most messages cached for a channel in the plugin's state machine
MaxCached == 2
\* largest context length the settings take
MaxContextLength == 2
\* longest message list handed to the pure functions
MaxLen == 3

\* fixed sampling parameter of the request
max_tokens == 1024

Channels == {"guild", "dm"}

\* channel.guild_id: set on a guild channel, absent (falsy) on a DM
guild_id(channel) == IF channel = "guild" THEN "1001" ELSE ""

Max(a, b) == IF a > b THEN a ELSE b
Min(a, b) == IF a < b THEN a ELSE b

----------------------------------------------------------------------------
(* Values *)

\* a message of the host's cache, as far as the plugin reads it
CachedMessage(content, bot) ==
    [content |-> content, author |-> [username |-> "ann", bot |-> bot]]

MessagePool == { CachedMessage(c, b) : c \in {"hi", "yo"}, b \in BOOLEAN }

\* the k-th message of a channel's cache in the plugin's state machine
NthMessage(k) ==
    CachedMessage(IF k = 1 THEN "m1" ELSE IF k = 2 THEN "m2"
                  ELSE IF k = 3 THEN "m3" ELSE "m4", k % 2 = 0)

\* What MessageStore.getMessages(channelId) does: "cached" returns a
\* collection, "absent" returns undefined, "throws" raises.
StoreEntry(state, messages) == [state |-> state, messages |-> messages]

StoreEntries ==
    { StoreEntry("absent", <<>>), StoreEntry("throws", <<>>) }
    \cup { StoreEntry("cached", [k \in 1..n |-> NthMessage(k)]) : n \in 0..MaxCached }

ChatScopes == {"dms", "channels", "both"}
OutputModes == {"ephemeral", "typebar"}
ApiKeys == {"", "or-key"}
SystemInstructions == {"", "Be concise."}
ContextLengths == 1..MaxContextLength
DefaultModel == "google/gemini-flash-1.5-8b-exp"

Settings ==
    [ contextLength : ContextLengths,
      model : {DefaultModel},
      chatScope : ChatScopes,
      systemInstructions : SystemInstructions,
      outputMode : OutputModes,
      showDebugInfo : BOOLEAN,
      showTokenCount : BOOLEAN,
      logErrors : BOOLEAN,
      apiKey : ApiKeys ]

\* the defaults of definePluginSettings
DefaultSettings ==
    [ contextLength |-> 20,
      model |-> DefaultModel,
      chatScope |-> "both",
      systemInstructions |-> "You are acting as me in this conversation. Respond in my tone and voice, not as an AI assistant. Be concise and natural.",
      outputMode |-> "ephemeral",
      showDebugInfo |-> FALSE,
      showTokenCount |-> TRUE,
      logErrors |-> TRUE,
      apiKey |-> "" ]

\* HTTP statuses the endpoint answers with; response.ok is 200..299
Statuses == {200, 401, 500}
ResponseOk(status) == status >= 200 /\ status <= 299
ErrorTexts == {"Unauthorized"}

\* Bodies of a 2xx answer once response.json() has parsed them.  A field the
\* JSON lacks is marked by its has* flag.
Usage == [prompt_tokens |-> 100, completion_tokens |-> 50, total_tokens |-> 150]
Choice(hasMessage, hasContent) ==
    [hasMessage |-> hasMessage, hasContent |-> hasContent,
     content |-> IF hasContent THEN "Sure." ELSE ""]
Body(isNull, hasChoices, choices, hasUsage) ==
    [isNull |-> isNull, hasChoices |-> hasChoices, choices |-> choices,
     hasUsage |-> hasUsage, usage |-> Usage, model |-> DefaultModel]

WellFormed  == Body(FALSE, TRUE, <<Choice(TRUE, TRUE)>>, TRUE)
NullBody    == Body(TRUE, FALSE, <<>>, FALSE)
NoChoices   == Body(FALSE, FALSE, <<>>, TRUE)
EmptyChoices == Body(FALSE, TRUE, <<>>, TRUE)
NoMessage   == Body(FALSE, TRUE, <<Choice(FALSE, FALSE)>>, TRUE)
NoContent   == Body(FALSE, TRUE, <<Choice(TRUE, FALSE)>>, TRUE)
NoUsage     == Body(FALSE, TRUE, <<Choice(TRUE, TRUE)>>, FALSE)

Bodies == {WellFormed, NullBody, NoChoices, EmptyChoices, NoMessage, NoContent, NoUsage}

\* the JavaScript value undefined, where a string was expected
Undefined == "undefined"

\* an effect: one call into the host or the runtime
Eff(op, arg) == [op |-> op, arg |-> arg]
Toast(message, type) == Eff("showToast", [message |-> message, type |-> type])
ConsoleError(src, error) == Eff("console.error", [src |-> src, error |-> error])

\* errors thrown inside generateAIResponse
Error(kind, status, body) == [kind |-> kind, status |-> status, body |-> body]
UpstreamError(status, body) == Error("OpenRouter API error", status, body)
NetworkError == Error("fetch failed", 0, "")
ParseError == Error("SyntaxError", 0, "")
TypeError == Error("TypeError", 0, "")

----------------------------------------------------------------------------
(* native.ts: generateResponse, formatDebugInfo (src/native.ts 1-126) *)

\* (a variant of allMessages that pushes the system message last)
allMessagesSystemLast(messages, systemPrompt) ==
    messages \o (IF systemPrompt # ""
                    THEN <<[role |-> "system", content |-> systemPrompt]>>
                    ELSE <<>>)

\* the list generateResponse sends: the system message, if any, then the
\* conversation
allMessages(messages, systemPrompt) ==
    (IF systemPrompt # ""
        THEN <<[role |-> "system", content |-> systemPrompt]>>
        ELSE <<>>) \o messages

\* the request generateResponse hands to fetch
Request(apiKey, model, messages, systemPrompt) ==
    [ url |-> "https://openrouter.ai/api/v1/chat/completions",
      method |-> "POST",
      authorization |-> <<"Bearer", apiKey>>,
      body |-> [ model |-> model,
                 messages |-> allMessages(messages, systemPrompt),
                 temperature |-> "0.7",
                 max_tokens |-> max_tokens,
                 stream |-> FALSE ] ]

\* generateResponse's catch: logs whatever was thrown, whatever the settings,
\* and throws it again
generateResponseCatch(error) == <<ConsoleError("generateResponse", error)>>

\* formatDebugInfo: the cost is (p/1000)*0.0001 + (c/1000)*0.0002 dollars,
\* printed with 6 decimals, here in millionths of a dollar; a response
\* without usage throws inside the try and yields the fallback text.
formatDebugInfo(response) ==
    IF ~response.hasUsage
        THEN [ok |-> FALSE, text |-> "Error generating debug info",
              model |-> "", prompt |-> 0, completion |-> 0, total |-> 0, cost |-> 0]
        ELSE [ok |-> TRUE, text |-> "**Debug Info:**",
              model |-> response.model,
              prompt |-> response.usage.prompt_tokens,
              completion |-> response.usage.completion_tokens,
              total |-> response.usage.total_tokens,
              cost |-> (response.usage.prompt_tokens
                        + 2 * response.usage.completion_tokens + 5) \div 10]

----------------------------------------------------------------------------
(* The plugin: its helpers (src/native.ts 128-370) *)

\* Array.prototype.slice(start) with one argument
Slice(array, start) ==
    LET n == Len(array)
        from == IF start < 0 THEN Max(n + start, 0) ELSE Min(start, n)
    IN  SubSeq(array, from + 1, n)

\* (a variant of getChatContext that takes slice(0, contextLength), the
\* oldest messages)
getChatContextOldest(entry, contextLength) ==
    IF entry.state = "throws" THEN <<>>
    ELSE LET messages == IF entry.state = "absent" THEN <<>> ELSE entry.messages
             contextMessages == SubSeq(messages, 1, Min(contextLength, Len(messages)))
         IN  [k \in 1..Len(contextMessages) |->
                [content |-> contextMessages[k].content,
                 author |-> [username |-> contextMessages[k].author.username,
                             bot |-> contextMessages[k].author.bot],
                 role |-> "user"]]

\* getChatContext: the last contextLength cached messages, each as a
\* role "user" message; the empty list when the store throws
getChatContext(entry, contextLength) ==
    IF entry.state = "throws" THEN <<>>
    ELSE LET messages == IF entry.state = "absent" THEN <<>> ELSE entry.messages
             contextMessages == Slice(messages, 0 - contextLength)
         IN  [k \in 1..Len(contextMessages) |->
                [content |-> contextMessages[k].content,
                 author |-> [username |-> contextMessages[k].author.username,
                             bot |-> contextMessages[k].author.bot],
                 role |-> "user"]]

\* what getChatContext does besides returning: it reads the store, and logs
\* when the read throws
getChatContextEffects(entry, channelId) ==
    <<Eff("MessageStore.getMessages", channelId)>>
    \o (IF entry.state = "throws"
           THEN <<ConsoleError("getChatContext", TypeError)>> ELSE <<>>)

\* (a variant of the scope gate that forgets the "channels" half)
ScopeMismatchDmsOnly(isGuildChannel, chatScope) ==
    isGuildChannel /\ chatScope = "dms"

\* the scope gate of /respond and of renderMessagePopoverButton
ScopeMismatch(isGuildChannel, chatScope) ==
    \/ isGuildChannel /\ chatScope = "dms"
    \/ ~isGuildChannel /\ chatScope = "channels"

MissingApiKey(apiKey) == apiKey = ""

\* (a variant without the empty-context check)
EmptyContextUnchecked(context) == FALSE

EmptyContext(context) == Len(context) = 0

\* !response || !response.choices || response.choices.length === 0
NoChoice(response) ==
    \/ response.isNull
    \/ ~response.hasChoices
    \/ Len(response.choices) = 0

\* (a variant of the catch that tries the request once more)
generateAIResponseCatchRetry(st, error) ==
    <<Eff("fetch", Request(st.apiKey, st.model, <<>>, st.systemInstructions)),
      Toast("Error generating AI response", "FAILURE")>>

\* generateAIResponse's catch
generateAIResponseCatch(st, error) ==
    (IF st.logErrors THEN <<ConsoleError("generateAIResponse", error)>> ELSE <<>>)
    \o <<Toast("Error generating AI response", "FAILURE")>>

\* generateAIResponse up to the fetch of generateResponse: the effects, and
\* whether a request is now in flight (otherwise null was returned)
generateAIResponseBegin(st, entry, channelId) ==
    IF MissingApiKey(st.apiKey)
    THEN [effects |-> <<Toast("Please set your OpenRouter API key in the plugin settings",
                              "FAILURE")>>,
          inFlight |-> FALSE]
    ELSE LET context == getChatContext(entry, st.contextLength)
             read == getChatContextEffects(entry, channelId)
         IN  IF EmptyContext(context)
             THEN [effects |-> read \o <<Toast("No messages found to generate context",
                                               "FAILURE")>>,
                   inFlight |-> FALSE]
             ELSE [effects |-> read
                       \o <<Toast("Generating AI response...", "INFO"),
                            Eff("fetch", Request(st.apiKey, st.model, context,
                                                 st.systemInstructions))>>,
                   inFlight |-> TRUE]

\* an error thrown out of generateResponse: logged there, caught by
\* generateAIResponse, which returns null
generateResponseThrows(st, error) ==
    generateResponseCatch(error) \o generateAIResponseCatch(st, error)

\* generateAIResponse from the parsed response on: the effects and the
\* result, null (ok = FALSE) or {text, response}
generateAIResponseEnd(st, response) ==
    IF NoChoice(response)
    THEN [effects |-> <<Toast("Failed to generate response", "FAILURE")>>,
          ok |-> FALSE, text |-> ""]
    ELSE IF ~response.choices[1].hasMessage
    THEN [effects |-> generateAIResponseCatch(st, TypeError), ok |-> FALSE, text |-> ""]
    ELSE LET generatedText == IF response.choices[1].hasContent
                              THEN response.choices[1].content ELSE Undefined
             log == IF st.showDebugInfo \/ st.showTokenCount
                    THEN <<Eff("console.log", formatDebugInfo(response))>> ELSE <<>>
         IN  IF st.showTokenCount /\ ~response.hasUsage
             THEN [effects |-> log \o generateAIResponseCatch(st, TypeError),
                   ok |-> FALSE, text |-> ""]
             ELSE [effects |-> log \o
                      (IF st.showTokenCount
                       THEN <<Toast(<<"Generated response", response.usage.total_tokens,
                                      "tokens">>, "SUCCESS")>>
                       ELSE <<>>),
                   ok |-> TRUE, text |-> generatedText]

\* (a variant that sends the text to the channel in ephemeral mode)
DeliverSendMessage(st, channelId, text, response) ==
    IF st.outputMode = "ephemeral"
    THEN <<Eff("sendMessage", [channel |-> channelId, text |-> text, debug |-> <<>>])>>
    ELSE <<Eff("insertTextIntoChatInputBox", [text |-> text])>>

\* what both callers do with a result: a local bot message, or the text put
\* into the compose box
Deliver(st, channelId, text, response) ==
    IF st.outputMode = "ephemeral"
    THEN <<Eff("sendBotMessage",
               [channel |-> channelId, text |-> text,
                debug |-> IF st.showDebugInfo
                          THEN <<formatDebugInfo(response)>> ELSE <<>>])>>
    ELSE <<Eff("insertTextIntoChatInputBox", [text |-> text])>>

ScopeNotice(channelId) ==
    Eff("sendBotMessage",
        [channel |-> channelId,
         text |-> "AI responses are not enabled for this type of channel. Check your plugin settings.",
         debug |-> <<>>])

----------------------------------------------------------------------------
(* State *)

\* settings : settings.store, the plugin's settings
\* MessageStore : the host's message cache, for the channels open in the run
\* inv : the invocations of the run (a /respond execution or a rendered
\*       button with its click): where each stands, and its trace
\* pure : one call of getChatContext followed by generateResponse's
\*        assembly of the messages, on arguments of its own

\* an invocation: pc is where it stands, status the HTTP status fetch resolved
\* with (0: none), response the parsed body (a list of none or one)
Idle == [pc |-> "idle", kind |-> "none", channel |-> "", status |-> 0,
         response |-> <<>>, trace |-> <<>>]

NoCall == [fn |-> "none", state |-> "absent", messages |-> <<>>, contextLength |-> 1,
           systemPrompt |-> "", context |-> <<>>, sent |-> <<>>]

Invocations == DOMAIN inv

OpenChannels == DOMAIN MessageStore

\* one invocation in one channel, under every configuration and every state
\* of that channel's cache
Init ==
    /\ settings \in Settings
    /\ \E c \in Channels : MessageStore \in [{c} -> StoreEntries]
    /\ inv = [i \in {1} |-> Idle]
    /\ pure = NoCall

\* two invocations in one channel with messages cached, a key configured
ConcInit ==
    /\ settings \in { st \in Settings :
                        /\ st.apiKey # ""
                        /\ st.systemInstructions # ""
                        /\ st.contextLength = 1
                        /\ st.chatScope = "both" }
    /\ \E c \in Channels :
          MessageStore = [d \in {c} |->
                            StoreEntry("cached", [k \in 1..MaxCached |-> NthMessage(k)])]
    /\ inv = [i \in {1, 2} |-> Idle]
    /\ pure = NoCall

\* arguments for the pure functions
RECURSIVE SeqsOfLen(_, _)
SeqsOfLen(S, n) ==
    IF n = 0 THEN { <<>> }
    ELSE { Append(s, x) : s \in SeqsOfLen(S, n - 1), x \in S }

SeqsUpTo(S, n) == UNION { SeqsOfLen(S, k) : k \in 0..n }

PureInit ==
    /\ settings = DefaultSettings
    /\ MessageStore = << >>
    /\ inv = << >>
    /\ \E state \in {"cached", "absent", "throws"},
          messages \in SeqsUpTo(MessagePool, MaxLen),
          contextLength \in 1..(MaxLen + 1),
          systemPrompt \in SystemInstructions :
          /\ state # "cached" => messages = <<>>
          /\ pure = [fn |-> "pending", state |-> state, messages |-> messages,
                     contextLength |-> contextLength, systemPrompt |-> systemPrompt,
                     context |-> <<>>, sent |-> <<>>]

----------------------------------------------------------------------------
(* Actions *)

\* (a variant with an in-flight guard per channel: a second invocation
\* returns at once while another awaits its answer in the same channel)
BeginGuarded(i, kind, channel) ==
    LET r == generateAIResponseBegin(settings, MessageStore[channel], channel)
        busy == \E j \in DOMAIN inv \ {i} :
                   /\ inv[j].channel = channel
                   /\ inv[j].pc \in {"awaitFetch", "awaitText", "awaitJson"}
    IN  inv' = [inv EXCEPT ![i] =
                  [pc |-> IF r.inFlight /\ ~busy THEN "awaitFetch" ELSE "done",
                   kind |-> kind, channel |-> channel, status |-> 0,
                   response |-> <<>>,
                   trace |-> IF busy THEN inv[i].trace ELSE inv[i].trace \o r.effects]]

\* the first stretch of an invocation: generateAIResponse up to its fetch
Begin(i, kind, channel) ==
    LET r == generateAIResponseBegin(settings, MessageStore[channel], channel)
    IN  inv' = [inv EXCEPT ![i] =
                  [pc |-> IF r.inFlight THEN "awaitFetch" ELSE "done",
                   kind |-> kind, channel |-> channel, status |-> 0,
                   response |-> <<>>, trace |-> inv[i].trace \o r.effects]]

\* /respond executed in a channel.  The catch of execute is never entered:
\* generateAIResponse and formatDebugInfo catch whatever they throw.
ExecuteRespond(i, channel) ==
    /\ inv[i].pc = "idle"
    /\ IF ScopeMismatch(guild_id(channel) # "", settings.chatScope)
       THEN inv' = [inv EXCEPT ![i] =
                      [pc |-> "done", kind |-> "command", channel |-> channel,
                       status |-> 0, response |-> <<>>,
                       trace |-> <<ScopeNotice(channel)>>]]
       ELSE Begin(i, "command", channel)
    /\ UNCHANGED <<settings, MessageStore, pure>>

\* the popover of a message is rendered: the button is there unless the
\* scope gate hides it
RenderMessagePopoverButton(i, channel) ==
    /\ inv[i].pc = "idle"
    /\ ~ScopeMismatch(guild_id(channel) # "", settings.chatScope)
    /\ inv' = [inv EXCEPT ![i] = [Idle EXCEPT !.pc = "rendered", !.kind = "button",
                                              !.channel = channel]]
    /\ UNCHANGED <<settings, MessageStore, pure>>

\* the rendered button is clicked
OnClick(i) ==
    /\ inv[i].pc = "rendered"
    /\ Begin(i, "button", inv[i].channel)
    /\ UNCHANGED <<settings, MessageStore, pure>>

Finish(i, response, effects) ==
    inv' = [inv EXCEPT ![i].pc = "done", ![i].response = response,
                       ![i].trace = @ \o effects]

\* fetch rejects: no answer from the network
FetchRejects(i) ==
    /\ inv[i].pc = "awaitFetch"
    /\ Finish(i, <<>>, generateResponseThrows(settings, NetworkError))
    /\ UNCHANGED <<settings, MessageStore, pure>>

\* fetch resolves with the status line of the answer
FetchResolves(i, status) ==
    /\ inv[i].pc = "awaitFetch"
    /\ inv' = [inv EXCEPT ![i].pc = IF ResponseOk(status) THEN "awaitJson" ELSE "awaitText",
                          ![i].status = status]
    /\ UNCHANGED <<settings, MessageStore, pure>>

\* response.text() of a non-2xx answer resolves: generateResponse throws
TextResolves(i, errorText) ==
    /\ inv[i].pc = "awaitText"
    /\ Finish(i, <<>>, generateResponseThrows(settings, UpstreamError(inv[i].status, errorText)))
    /\ UNCHANGED <<settings, MessageStore, pure>>

\* response.json() rejects: the body is not JSON
JsonRejects(i) ==
    /\ inv[i].pc = "awaitJson"
    /\ Finish(i, <<>>, generateResponseThrows(settings, ParseError))
    /\ UNCHANGED <<settings, MessageStore, pure>>

\* response.json() resolves: the rest of generateAIResponse and of its caller
JsonResolves(i, response) ==
    /\ inv[i].pc = "awaitJson"
    /\ LET r == generateAIResponseEnd(settings, response)
       IN  Finish(i, <<response>>, r.effects \o
                        (IF r.ok THEN Deliver(settings, inv[i].channel, r.text, response)
                         ELSE <<>>))
    /\ UNCHANGED <<settings, MessageStore, pure>>

\* A setting is written.  A write while no invocation is under way is left
\* out: before the first invocation Init already ranges over the settings,
\* and after the last one nothing reads them.
SetSetting(field, value) ==
    /\ \E i \in Invocations : inv[i].pc # "idle"
    /\ \E i \in Invocations : inv[i].pc # "done"
    /\ value # settings[field]
    /\ settings' = [settings EXCEPT ![field] = value]
    /\ UNCHANGED <<MessageStore, inv, pure>>

\* the handlers of SettingsComponent
updateApiKey(newValue) == SetSetting("apiKey", newValue)
onChangeShowDebugInfo(v) == SetSetting("showDebugInfo", v)
onChangeShowTokenCount(v) == SetSetting("showTokenCount", v)
onChangeLogErrors(v) == SetSetting("logErrors", v)
\* the host's panel for the other settings
SetContextLength(v) == SetSetting("contextLength", v)
SetChatScope(v) == SetSetting("chatScope", v)
SetSystemInstructions(v) == SetSetting("systemInstructions", v)
SetOutputMode(v) == SetSetting("outputMode", v)

\* the pure functions, applied to the arguments Init drew
CallGetChatContext ==
    /\ pure.fn = "pending"
    /\ pure' = [pure EXCEPT !.fn = "getChatContext",
                            !.context = getChatContext(StoreEntry(pure.state, pure.messages),
                                                       pure.contextLength)]
    /\ UNCHANGED <<settings, MessageStore, inv>>

CallGenerateResponse ==
    /\ pure.fn = "getChatContext"
    /\ pure' = [pure EXCEPT !.fn = "generateResponse",
                            !.sent = Request(settings.apiKey, settings.model, pure.context,
                                             pure.systemPrompt).body.messages]
    /\ UNCHANGED <<settings, MessageStore, inv>>

Step ==
    \/ \E i \in Invocations, c \in OpenChannels : ExecuteRespond(i, c)
    \/ \E i \in Invocations, c \in OpenChannels : RenderMessagePopoverButton(i, c)
    \/ \E i \in Invocations : OnClick(i)
    \/ \E i \in Invocations : FetchRejects(i)
    \/ \E i \in Invocations, s \in Statuses : FetchResolves(i, s)
    \/ \E i \in Invocations, t \in ErrorTexts : TextResolves(i, t)
    \/ \E i \in Invocations : JsonRejects(i)
    \/ \E i \in Invocations, b \in Bodies : JsonResolves(i, b)

Next ==
    \/ Step
    \/ \E v \in ApiKeys : updateApiKey(v)
    \/ \E v \in BOOLEAN : onChangeShowDebugInfo(v)
    \/ \E v \in BOOLEAN : onChangeShowTokenCount(v)
    \/ \E v \in BOOLEAN : onChangeLogErrors(v)
    \/ \E v \in ContextLengths : SetContextLength(v)
    \/ \E v \in ChatScopes : SetChatScope(v)
    \/ \E v \in SystemInstructions : SetSystemInstructions(v)
    \/ \E v \in OutputModes : SetOutputMode(v)

ConcNext ==
    \/ Step
    \/ \E v \in OutputModes : SetOutputMode(v)
    \/ \E v \in BOOLEAN : onChangeLogErrors(v)

PureNext ==
    \/ CallGetChatContext
    \/ CallGenerateResponse

Spec == Init /\ [][Next]_vars

ConcSpec == ConcInit /\ [][ConcNext]_vars

PureSpec == PureInit /\ [][PureNext]_vars

----------------------------------------------------------------------------
(* Vocabulary of the properties *)

\* how often an invocation's trace calls op
Count(trace, op) == Cardinality({ k \in DOMAIN trace : trace[k].op = op })

FailureToasts(trace) ==
    Cardinality({ k \in DOMAIN trace :
                    trace[k].op = "showToast" /\ trace[k].arg.type = "FAILURE" })

\* an effect that hands generated text to the user
GeneratedDelivery(e) ==
    \/ e.op = "insertTextIntoChatInputBox"
    \/ e.op = "sendBotMessage" /\ e # ScopeNotice(e.arg.channel)

Delivers(trace) == \E k \in DOMAIN trace : GeneratedDelivery(trace[k])

\* the channel type does not fit the chat scope
Mismatch(channel, chatScope) ==
    \/ channel = "guild" /\ chatScope = "dms"
    \/ channel = "dm" /\ chatScope = "channels"

\* the cache yields no message for the channel
CacheEmpty(channel) ==
    \/ MessageStore[channel].state # "cached"
    \/ Len(MessageStore[channel].messages) = 0

\* this step is the execution of /respond by invocation i
CommandStarts(i) == inv[i].pc = "idle" /\ inv'[i].kind = "command"

\* this step is the click on invocation i's button
ClickStarts(i) == inv[i].pc = "rendered" /\ inv'[i].pc # "rendered"

Awaiting(i) == inv[i].pc \in {"awaitFetch", "awaitText", "awaitJson"}

----------------------------------------------------------------------------
(* Properties *)

\* C1: /respond executed in a channel whose type mismatches the chat scope
\* ends at once with exactly one local notice, no read of the message store
\* and no HTTP request; when the types fit, and always under scope "both",
\* the gate produces no notice.
C1_ScopeGateOfRespond ==
    [][\A i \in Invocations : CommandStarts(i) =>
          LET c == inv'[i].channel
              t == inv'[i].trace
          IN  /\ Mismatch(c, settings.chatScope) =>
                    /\ inv'[i].pc = "done"
                    /\ Len(t) = 1
                    /\ t[1].op = "sendBotMessage"
                    /\ Count(t, "MessageStore.getMessages") = 0
                    /\ Count(t, "fetch") = 0
              /\ (settings.chatScope = "both" \/ ~Mismatch(c, settings.chatScope)) =>
                    Count(t, "sendBotMessage") = 0]_vars

C1_Witness ==
    \E i \in Invocations :
        /\ inv[i].kind = "command"
        /\ inv[i].pc = "done"
        /\ inv[i].channel = "guild"
        /\ settings.chatScope = "dms"
        /\ Count(inv[i].trace, "sendBotMessage") = 1
        /\ Len(inv[i].trace) = 1

C2_EveryRequest ==
    \A i \in Invocations : \A k \in DOMAIN inv[i].trace :
        inv[i].trace[k].op = "fetch" =>
            LET req == inv[i].trace[k].arg
            IN  /\ req.authorization[2] # ""
                /\ Len(req.body.messages) > 0
                /\ \E m \in DOMAIN req.body.messages : req.body.messages[m].role = "user"

C2_ShortCircuit ==
    \A i \in Invocations :
        (\/ CommandStarts(i) /\ ~Mismatch(inv'[i].channel, settings.chatScope)
         \/ ClickStarts(i))
        => LET c == inv'[i].channel
               t == inv'[i].trace
           IN  (settings.apiKey = "" \/ CacheEmpty(c)) =>
                   /\ inv'[i].pc = "done"
                   /\ Count(t, "fetch") = 0
                   /\ FailureToasts(t) = 1
                   /\ ~Delivers(t)

\* C2: every request sent carries a non-empty key and a non-empty context,
\* so its messages list is never empty; with no key, or with no message
\* collected (the store throwing included), generateAIResponse shows one
\* failure toast, sends nothing and returns null.
C2_RequestNeedsKeyAndContext == []C2_EveryRequest /\ [][C2_ShortCircuit]_vars

C2_Witness ==
    \E i \in Invocations :
        /\ inv[i].pc = "done"
        /\ settings.apiKey # ""
        /\ MessageStore[inv[i].channel].state = "throws"
        /\ Count(inv[i].trace, "MessageStore.getMessages") = 1
        /\ Count(inv[i].trace, "fetch") = 0
        /\ FailureToasts(inv[i].trace) = 1

\* the completion step of invocation i failed: no 2xx status, a body that is
\* not JSON, or a body without a first choice carrying message.content
CompletionFailed(i) ==
    /\ inv[i].pc = "done"
    /\ Count(inv[i].trace, "fetch") = 1
    /\ \/ ~(inv[i].status >= 200 /\ inv[i].status <= 299)
       \/ inv[i].response = <<>>
       \/ LET b == inv[i].response[1]
          IN  \/ b.isNull
              \/ ~b.hasChoices
              \/ Len(b.choices) = 0
              \/ ~b.choices[1].hasMessage
              \/ ~b.choices[1].hasContent

\* C3: every failure of the completion step ends with a failure notice and
\* with nothing delivered, neither as a bot message nor into the compose box.
C3_FailureDeliversNothing ==
    \A i \in Invocations :
        CompletionFailed(i) => FailureToasts(inv[i].trace) >= 1 /\ ~Delivers(inv[i].trace)

\* C4: while logErrors is off, no step writes the status and body of a
\* non-2xx answer to the console.
C4_UpstreamLoggedOnlyIfEnabled ==
    [][\A i \in Invocations : ~settings.logErrors =>
          \A k \in (Len(inv[i].trace) + 1)..Len(inv'[i].trace) :
              ~(/\ inv'[i].trace[k].op = "console.error"
                /\ inv'[i].trace[k].arg.error.kind = "OpenRouter API error")]_vars

\* C5: whatever the path and the outcome, the plugin only posts local bot
\* messages, fills the compose box, shows toasts and logs (besides reading
\* the cache and calling the API): sendMessage is never called.
C5_NothingSentToTheChannel ==
    \A i \in Invocations : \A k \in DOMAIN inv[i].trace :
        /\ inv[i].trace[k].op # "sendMessage"
        /\ inv[i].trace[k].op \in {"sendBotMessage", "insertTextIntoChatInputBox",
                                   "showToast", "console.error", "console.log",
                                   "fetch", "MessageStore.getMessages"}

C5_Witness ==
    \E i \in Invocations :
        /\ inv[i].pc = "done"
        /\ \E k \in DOMAIN inv[i].trace :
              /\ inv[i].trace[k].op = "sendBotMessage"
              /\ inv[i].trace[k].arg.text = "Sure."
              /\ inv[i].trace[k].arg.debug # <<>>

\* C6: for a channel with n cached messages and a context length L >= 1,
\* getChatContext returns the min(L, n) most recent ones, oldest first, each
\* with its content and author; for n = 0 the empty list.
C6_LastMessagesInOrder ==
    (pure.fn \in {"getChatContext", "generateResponse"} /\ pure.state # "throws") =>
        LET n == Len(pure.messages)
            m == IF pure.contextLength < n THEN pure.contextLength ELSE n
        IN  /\ Len(pure.context) = m
            /\ \A j \in 1..m :
                  /\ pure.context[j].content = pure.messages[n - m + j].content
                  /\ pure.context[j].author = pure.messages[n - m + j].author
                  /\ pure.context[j].role = "user"

C6_Witness ==
    /\ pure.fn = "getChatContext"
    /\ Len(pure.messages) = 3
    /\ pure.contextLength = 2
    /\ pure.messages[1].content # pure.messages[3].content
    /\ Len(pure.context) = 2
    /\ pure.context[2].content = pure.messages[3].content

\* C7: the messages of the request are the system message (role "system",
\* the instruction as content) followed by the list M unchanged when the
\* instruction is non-empty, and M unchanged when it is empty.
C7_SystemFirstThenMessages ==
    pure.fn = "generateResponse" =>
        LET M == pure.context
            sys == [role |-> "system", content |-> pure.systemPrompt]
        IN  IF pure.systemPrompt # ""
            THEN /\ Len(pure.sent) = Len(M) + 1
                 /\ pure.sent[1] = sys
                 /\ \A k \in 1..Len(M) : pure.sent[k + 1] = M[k]
                 /\ \A k \in 1..Len(M) : pure.sent[k + 1].role # "system"
            ELSE pure.sent = M

C7_Witness ==
    /\ pure.fn = "generateResponse"
    /\ pure.systemPrompt # ""
    /\ Len(pure.context) = 2
    /\ pure.context[1] # pure.context[2]
    /\ Len(pure.sent) = 3
    /\ pure.sent[1].role = "system"

C8_AtMostOne == \A i \in Invocations : Count(inv[i].trace, "fetch") <= 1

C8_OnePerInvocation ==
    \A i \in Invocations :
        LET c == inv'[i].channel
            before == Count(inv[i].trace, "fetch")
            after == Count(inv'[i].trace, "fetch")
            ready == settings.apiKey # "" /\ ~CacheEmpty(c)
        IN  /\ CommandStarts(i) =>
                after = IF ~Mismatch(c, settings.chatScope) /\ ready THEN 1 ELSE 0
            /\ ClickStarts(i) => after = IF ready THEN 1 ELSE 0
            /\ Awaiting(i) => before = 1 /\ after = 1

\* C8: an invocation issues at most one POST; exactly one when the scope
\* gate, the key check and the context check pass, none otherwise; and no
\* step after the request, its failure included, issues another.
C8_SingleRequest == []C8_AtMostOne /\ [][C8_OnePerInvocation]_vars

C8_Witness ==
    \E i \in Invocations :
        /\ inv[i].pc = "done"
        /\ inv[i].status = 401
        /\ FailureToasts(inv[i].trace) = 1
        /\ Count(inv[i].trace, "fetch") = 1

\* while one invocation awaits its answer, another can start in the same
\* channel and issue a request of its own
C9_SecondMayStart ==
    \A i \in Invocations : \A j \in Invocations \ {i} :
        (Awaiting(i) /\ inv[j].pc = "idle") =>
            ENABLED (/\ ExecuteRespond(j, inv[i].channel)
                     /\ inv'[j].pc = "awaitFetch")

\* a step of one invocation leaves the other, the settings and the cache as
\* they are, and starts its request whatever the other is doing
C9_NoInterference ==
    \A i \in Invocations : inv'[i] # inv[i] =>
        /\ \A j \in Invocations \ {i} : inv'[j] = inv[j]
        /\ settings' = settings
        /\ MessageStore' = MessageStore
        /\ ( /\ (CommandStarts(i) \/ ClickStarts(i))
              /\ settings.apiKey # ""
              /\ ~CacheEmpty(inv'[i].channel)
              /\ ~Mismatch(inv'[i].channel, settings.chatScope) )
           => (inv'[i].pc = "awaitFetch" /\ Count(inv'[i].trace, "fetch") = 1)

\* C9: two invocations in one channel are not coordinated: the second can
\* start and send its request while the first awaits its answer, no step of
\* one touches the other or any shared state, and both can deliver.
C9_Uncoordinated == []C9_SecondMayStart /\ [][C9_NoInterference]_vars

C9_Witness ==
    /\ DOMAIN inv = {1, 2}
    /\ inv[1].channel = inv[2].channel
    /\ \A i \in DOMAIN inv :
          /\ inv[i].pc = "done"
          /\ Count(inv[i].trace, "fetch") = 1
          /\ Delivers(inv[i].trace)

\* C10: a click on the button while the channel type mismatches the chat
\* scope, as configured at the click, reads no message and sends no request.
C10_ScopeGateAtClick ==
    [][\A i \in Invocations :
          (ClickStarts(i) /\ Mismatch(inv[i].channel, settings.chatScope)) =>
              /\ Count(inv'[i].trace, "MessageStore.getMessages") = 0
              /\ Count(inv'[i].trace, "fetch") = 0]_vars

====
